---- MODULE Spec2Model ----
(***************************************************************************)
(* A model of rust-shlex's byte engine (src/src/bytes.rs): the tokenizer   *)
(* Shlex (new, next_char, next, parse_word, parse_double, parse_single),   *)
(* the whole-input split, and the encoders quote and join.                 *)
(*                                                                         *)
(* The tokenizer is modelled at the granularity of its loops: every action *)
(* is one iteration of the loop the control is in (one match arm, with the *)
(* straight-line code that follows it up to the next loop head), so every  *)
(* intermediate point of a scan is a state.  quote and join are pure and   *)
(* are operators, applied by the actions QuoteCall and JoinCall.           *)
(***************************************************************************)
EXTENDS Integers, Sequences, FiniteSets, TLC

\* ------------------------------------------------------------------ bytes
NUL    == 0
TAB    == 9
LF     == 10
CR     == 13
SP     == 32
DQ     == 34
HASH   == 35
DOLLAR == 36
SQ     == 39
EQUALS == 61
BSL    == 92
BQ     == 96
LETTER == 97
HIGH   == 161
ByteCount == 256

AllBytes == 0 .. (ByteCount - 1)

\* ----------------------------------------------------------------- bounds
\* Longest raw input over CoreBytes handed to Shlex::new.
MaxLen == 4
\* Largest weight of an argument list handed to quote/join: the sum over its
\* words of (1 + the word's length).
MaxArgs == 4

\* The bytes the bounded inputs are drawn from: one or two of every class the
\* code distinguishes.
CoreBytes == {TAB, LF, SP, DQ, HASH, DOLLAR, SQ, BSL, LETTER, HIGH}
WordBytes == {LF, SP, DQ, HASH, DOLLAR, SQ, BSL, BQ, LETTER, NUL, HIGH}

RECURSIVE SeqsUpTo(_, _)
SeqsUpTo(S, n) ==
    IF n = 0 THEN {<<>>}
    ELSE LET P == SeqsUpTo(S, n - 1)
         IN  P \cup {Append(s, b) : s \in {x \in P : Len(x) = n - 1}, b \in S}

\* Argument lists of weight at most n.
RECURSIVE ArgLists(_)
ArgLists(n) ==
    IF n = 0 THEN {<<>>}
    ELSE {<<>>} \cup
         UNION {{<<w>> \o rest : rest \in ArgLists(n - 1 - Len(w))} :
                    w \in SeqsUpTo(WordBytes, n - 1)}

ArgInputs ==
    ArgLists(MaxArgs) \cup {<<(<<b>>)>> : b \in AllBytes}

\* ---------------------------------------------------------------- options
None    == [tag |-> "None", val |-> <<>>]
Unset   == [tag |-> "Unset", val |-> <<>>]
Some(v) == [tag |-> "Some", val |-> v]

\* --------------------------------- the source's tests
\* The test table of bytes.rs:211-233: each input with what split returns.
SPLIT_TEST_ITEMS == <<
    [in |-> <<102, 111, 111, 36, 98, 97, 122>>,
     out |-> Some(<<<<102, 111, 111, 36, 98, 97, 122>>>>)],
    [in |-> <<102, 111, 111, 32, 98, 97, 122>>,
     out |-> Some(<<<<102, 111, 111>>, <<98, 97, 122>>>>)],
    [in |-> <<102, 111, 111, 34, 98, 97, 114, 34, 98, 97, 122>>,
     out |-> Some(<<<<102, 111, 111, 98, 97, 114, 98, 97, 122>>>>)],
    [in |-> <<102, 111, 111, 32, 34, 98, 97, 114, 34, 98, 97, 122>>,
     out |-> Some(<<<<102, 111, 111>>, <<98, 97, 114, 98, 97, 122>>>>)],
    [in |-> <<32, 32, 32, 102, 111, 111, 32, 10, 98, 97, 114>>,
     out |-> Some(<<<<102, 111, 111>>, <<98, 97, 114>>>>)],
    [in |-> <<102, 111, 111, 92, 10, 98, 97, 114>>,
     out |-> Some(<<<<102, 111, 111, 98, 97, 114>>>>)],
    [in |-> <<34, 102, 111, 111, 92, 10, 98, 97, 114, 34>>,
     out |-> Some(<<<<102, 111, 111, 98, 97, 114>>>>)],
    [in |-> <<39, 98, 97, 122, 92, 36, 98, 39>>,
     out |-> Some(<<<<98, 97, 122, 92, 36, 98>>>>)],
    [in |-> <<39, 98, 97, 122, 92, 39, 39>>,
     out |-> None],
    [in |-> <<92>>,
     out |-> None],
    [in |-> <<34, 92>>,
     out |-> None],
    [in |-> <<39, 92>>,
     out |-> None],
    [in |-> <<34>>,
     out |-> None],
    [in |-> <<39>>,
     out |-> None],
    [in |-> <<102, 111, 111, 32, 35, 98, 97, 114, 10, 98, 97, 122>>,
     out |-> Some(<<<<102, 111, 111>>, <<98, 97, 122>>>>)],
    [in |-> <<102, 111, 111, 32, 35, 98, 97, 114>>,
     out |-> Some(<<<<102, 111, 111>>>>)],
    [in |-> <<102, 111, 111, 35, 98, 97, 114>>,
     out |-> Some(<<<<102, 111, 111, 35, 98, 97, 114>>>>)],
    [in |-> <<102, 111, 111, 34, 35, 98, 97, 114>>,
     out |-> None],
    [in |-> <<39, 92, 110, 39>>,
     out |-> Some(<<<<92, 110>>>>)],
    [in |-> <<39, 92, 92, 110, 39>>,
     out |-> Some(<<<<92, 92, 110>>>>)],
    [in |-> <<161>>,
     out |-> Some(<<<<161>>>>)]
>>

\* The input of test_lineno (bytes.rs:244): newline, foo, newline, bar.
LinenoTestInput == <<10, 102, 111, 111, 10, 98, 97, 114>>

TestInputs ==
    {SPLIT_TEST_ITEMS[i].in : i \in 1 .. Len(SPLIT_TEST_ITEMS)}
        \cup {LinenoTestInput}

\* ------------------------------------------------------------- quote, join
\* Mutant: the list of bytes.rs:172-173 without the percent sign.
IsMetaNoPercent(c) ==
    c \in {124, 38, 59, 60, 62, 40, 41, DOLLAR, BQ, BSL, DQ, SQ, SP, TAB,
           CR, LF, 42, 63, 91, HASH, 126, EQUALS}

\* Mutant: the list of bytes.rs:172-173 without the tab.
IsMetaNoTab(c) ==
    c \in {124, 38, 59, 60, 62, 40, 41, DOLLAR, BQ, BSL, DQ, SQ, SP,
           CR, LF, 42, 63, 91, HASH, 126, EQUALS, 37}

\* The bytes that force quoting (bytes.rs:172-173).
IsMeta(c) ==
    c \in {124, 38, 59, 60, 62, 40, 41, DOLLAR, BQ, BSL, DQ, SQ, SP, TAB,
           CR, LF, 42, 63, 91, HASH, 126, EQUALS, 37}

\* Mutant: the bytes from 0x80 on get a backslash as well.
NeedsEscapeHigh(c) == c \in {DOLLAR, BQ, DQ, BSL} \/ c >= 128

\* Mutant: the backslash itself is not escaped.
NeedsEscapeNoBackslash(c) == c \in {DOLLAR, BQ, DQ}

\* The bytes that get a backslash inside the double quotes (bytes.rs:180).
NeedsEscape(c) == c \in {DOLLAR, BQ, DQ, BSL}

\* Mutant: the backslash is pushed after the byte it is meant to escape.
RECURSIVE QuoteLoopEscapeAfter(_, _, _)
QuoteLoopEscapeAfter(in_bytes, i, out) ==
    IF i > Len(in_bytes) THEN out
    ELSE LET c    == in_bytes[i]
             out1 == Append(out, c)
         IN  QuoteLoopEscapeAfter(in_bytes, i + 1,
                 IF c \in {DOLLAR, BQ, DQ, BSL} THEN Append(out1, BSL)
                 ELSE out1)

\* The loop of bytes.rs:178-184, from byte i of in_bytes on, out so far.
RECURSIVE QuoteLoop(_, _, _)
QuoteLoop(in_bytes, i, out) ==
    IF i > Len(in_bytes) THEN out
    ELSE LET c    == in_bytes[i]
             out1 == IF NeedsEscape(c) THEN Append(out, BSL) ELSE out
         IN  QuoteLoop(in_bytes, i + 1, Append(out1, c))

quote(in_bytes) ==
    IF Len(in_bytes) = 0 THEN <<DQ, DQ>>
    ELSE IF \E i \in 1 .. Len(in_bytes) : IsMeta(in_bytes[i])
         THEN Append(QuoteLoop(in_bytes, 1, <<DQ>>), DQ)
         ELSE in_bytes

\* Mutant: a separator after every word, the last one included.
RECURSIVE JoinFromTrailing(_, _)
JoinFromTrailing(quoted, i) ==
    IF i > Len(quoted) THEN <<>>
    ELSE quoted[i] \o <<SP>> \o JoinFromTrailing(quoted, i + 1)

\* slice::join(&b' ') over the quoted words, from word i on.
RECURSIVE JoinFrom(_, _)
JoinFrom(quoted, i) ==
    IF i > Len(quoted) THEN <<>>
    ELSE IF i = Len(quoted) THEN quoted[i]
    ELSE quoted[i] \o <<SP>> \o JoinFrom(quoted, i + 1)

join(ws) == JoinFrom([i \in 1 .. Len(ws) |-> quote(ws[i])], 1)

\* Raw inputs: every string over CoreBytes up to MaxLen, every one-byte input,
\* every two-byte input with one arbitrary byte, every byte between two
\* letters, and the inputs of the source's tests.
RawInputs ==
    SeqsUpTo(CoreBytes, MaxLen)
    \cup {<<b>> : b \in AllBytes}
    \cup {<<b, c>> : b \in AllBytes, c \in CoreBytes}
    \cup {<<c, b>> : b \in AllBytes, c \in CoreBytes}
    \cup {<<LETTER, b, LETTER>> : b \in AllBytes}
    \cup TestInputs

\* ------------------------------------------------------------------ state
VARIABLES
    args,       \* the words handed to quote or join (<<>> for a raw input)
    op,         \* how input was made: "args" (not yet), "raw", "quote", "join"
    input,      \* in_bytes, the slice in_iter walks
    pos,        \* the number of bytes in_iter has yielded
    line_no,    \* Shlex::line_no
    had_error,  \* Shlex::had_error
    pc,         \* where the control is: "start", "idle" (outside next),
                \* "skip", "comment", "word", "double", "single"
    ch,         \* the byte under the match of the skip loop or of parse_word
    result,     \* parse_word's result, the word under construction
    ret,        \* what the last call of next returned
    words,      \* the words yielded so far (what split's collect holds)
    split_ret   \* what split returns: set when the first pull returns None

vars == <<args, op, input, pos, line_no, had_error, pc, ch, result, ret,
          words, split_ret>>

\* Shlex::new (bytes.rs:48-54)
ShlexNew ==
    /\ pos = 0
    /\ line_no = 1
    /\ had_error = FALSE

Init ==
    /\ ShlexNew
    /\ ch = 0
    /\ result = <<>>
    /\ ret = Unset
    /\ words = <<>>
    /\ split_ret = Unset
    /\ \/ /\ op = "raw"
          /\ pc = "idle"
          /\ args = <<>>
          /\ input \in RawInputs
       \/ /\ op = "args"
          /\ pc = "start"
          /\ args \in ArgInputs
          /\ input = <<>>

\* quote(word), its output then handed to the tokenizer.
QuoteCall ==
    /\ pc = "start"
    /\ Len(args) = 1
    /\ input' = quote(args[1])
    /\ op' = "quote"
    /\ pc' = "idle"
    /\ UNCHANGED <<args, pos, line_no, had_error, ch, result, ret, words,
                   split_ret>>

\* join(words), its output then handed to the tokenizer.
JoinCall ==
    /\ pc = "start"
    /\ input' = join(args)
    /\ op' = "join"
    /\ pc' = "idle"
    /\ UNCHANGED <<args, pos, line_no, had_error, ch, result, ret, words,
                   split_ret>>

\* -------------------------------------------------------------- tokenizer
\* Mutant: a carriage return separates words as well.
IsSpaceWithCR(c) == c \in {SP, TAB, LF, CR}

\* Mutant: the bytes from 0x80 on are taken for white space too.
IsSpaceOrHigh(c) == c \in {SP, TAB, LF} \/ c >= 128

IsSpace(c) == c \in {SP, TAB, LF}

\* Mutant: a carriage return counts as a line end too.
NextCharCountsCR(p, ln) ==
    IF p < Len(input)
    THEN [some |-> TRUE, ch |-> input[p + 1], pos |-> p + 1,
          line_no |-> IF input[p + 1] \in {LF, CR} THEN ln + 1 ELSE ln]
    ELSE [some |-> FALSE, ch |-> 0, pos |-> p, line_no |-> ln]

\* next_char (bytes.rs:122-126) at cursor p with line number ln.
NextChar(p, ln) ==
    IF p < Len(input)
    THEN [some |-> TRUE, ch |-> input[p + 1], pos |-> p + 1,
          line_no |-> IF input[p + 1] = LF THEN ln + 1 ELSE ln]
    ELSE [some |-> FALSE, ch |-> 0, pos |-> p, line_no |-> ln]

\* Mutant: split returns what was collected, error or not.
SplitResultPartial(he, res) == Some(res)

\* split's last line (bytes.rs:159).
SplitResult(he, res) == IF he THEN None ELSE Some(res)

\* next returns r with the cursor at p, line number ln and error flag he.  The
\* caller's collect pushes a yielded word; the first None ends collect, and
\* split returns.
Return(r, p, ln, he) ==
    /\ pc' = "idle"
    /\ ret' = r
    /\ pos' = p
    /\ line_no' = ln
    /\ had_error' = he
    /\ ch' = 0
    /\ result' = <<>>
    /\ words' = IF r.tag = "Some" THEN Append(words, r.val) ELSE words
    /\ split_ret' = IF r.tag = "None" /\ split_ret.tag = "Unset"
                    THEN SplitResult(he, words)
                    ELSE split_ret
    /\ UNCHANGED <<args, op, input>>

\* The control moves to location l with byte c under the match and word w.
Goto(l, c, w, p, ln) ==
    /\ pc' = l
    /\ ch' = c
    /\ result' = w
    /\ pos' = p
    /\ line_no' = ln
    /\ UNCHANGED <<args, op, input, had_error, ret, words, split_ret>>

\* bytes.rs:144, the end of one round of the skip loop.
SkipAdvance(p, ln) ==
    LET nc == NextChar(p, ln)
    IN  IF nc.some
        THEN Goto("skip", nc.ch, <<>>, nc.pos, nc.line_no)
        ELSE Return(None, nc.pos, nc.line_no, had_error)

\* bytes.rs:77, the end of one round of parse_word's loop, the word being w.
WordAdvance(w, p, ln) ==
    LET nc == NextChar(p, ln)
    IN  IF nc.some
        THEN Goto("word", nc.ch, w, nc.pos, nc.line_no)
        ELSE Return(Some(w), nc.pos, nc.line_no, had_error)

\* Mutant: every call of next starts by clearing the error flag.
PullClearsError ==
    /\ pc = "idle"
    /\ LET nc == NextChar(pos, line_no)
       IN  IF nc.some
           THEN Goto("skip", nc.ch, <<>>, nc.pos, nc.line_no)
           ELSE Return(None, nc.pos, nc.line_no, FALSE)

\* next is called (bytes.rs:132, 147-149).
Pull ==
    /\ pc = "idle"
    /\ LET nc == NextChar(pos, line_no)
       IN  IF nc.some
           THEN Goto("skip", nc.ch, <<>>, nc.pos, nc.line_no)
           ELSE Return(None, nc.pos, nc.line_no, had_error)

\* Mutant: the skip loop does not move on from a white space byte.
SkipSpaceStays ==
    /\ pc = "skip"
    /\ IsSpace(ch)
    /\ Goto("skip", ch, <<>>, pos, line_no)

\* bytes.rs:136 then 144.
SkipSpace ==
    /\ pc = "skip"
    /\ IsSpace(ch)
    /\ SkipAdvance(pos, line_no)

\* bytes.rs:137.
SkipHash ==
    /\ pc = "skip"
    /\ ch = HASH
    /\ Goto("comment", ch, <<>>, pos, line_no)

\* Mutant: a backslash in a comment takes the next byte with it, so that a
\* backslash before the newline extends the comment.
CommentByteContinued ==
    /\ pc = "comment"
    /\ LET nc == NextChar(pos, line_no)
       IN  IF nc.some /\ nc.ch = BSL
           THEN LET nc2 == NextChar(nc.pos, nc.line_no)
                IN  Goto("comment", ch, <<>>, nc2.pos, nc2.line_no)
           ELSE IF nc.some /\ nc.ch # LF
           THEN Goto("comment", ch, <<>>, nc.pos, nc.line_no)
           ELSE SkipAdvance(nc.pos, nc.line_no)

\* Mutant: a comment that the end of input cuts short is an error.
CommentByteUnterminated ==
    /\ pc = "comment"
    /\ LET nc == NextChar(pos, line_no)
       IN  IF nc.some /\ nc.ch # LF
           THEN Goto("comment", ch, <<>>, nc.pos, nc.line_no)
           ELSE IF nc.some
           THEN SkipAdvance(nc.pos, nc.line_no)
           ELSE Return(None, nc.pos, nc.line_no, TRUE)

\* One round of the while let of bytes.rs:138-140; when it ends, bytes.rs:144.
CommentByte ==
    /\ pc = "comment"
    /\ LET nc == NextChar(pos, line_no)
       IN  IF nc.some /\ nc.ch # LF
           THEN Goto("comment", ch, <<>>, nc.pos, nc.line_no)
           ELSE SkipAdvance(nc.pos, nc.line_no)

\* bytes.rs:142, 146 and 57.
SkipEnd ==
    /\ pc = "skip"
    /\ ~IsSpace(ch)
    /\ ch # HASH
    /\ Goto("word", ch, <<>>, pos, line_no)

\* bytes.rs:60, into parse_double.
WordDouble ==
    /\ pc = "word"
    /\ ch = DQ
    /\ Goto("double", ch, result, pos, line_no)

\* Mutant: the error flag is raised as soon as a single quote opens.
WordSingleFlagsOpen ==
    /\ pc = "word"
    /\ ch = SQ
    /\ pc' = "single"
    /\ had_error' = TRUE
    /\ UNCHANGED <<args, op, input, pos, line_no, ch, result, ret, words,
                   split_ret>>

\* bytes.rs:64, into parse_single.
WordSingle ==
    /\ pc = "word"
    /\ ch = SQ
    /\ Goto("single", ch, result, pos, line_no)

\* Mutant: outside quotes a backslash is removed only before the bytes it is
\* removed before inside double quotes, and kept before any other.
WordBackslashKeeps ==
    /\ pc = "word"
    /\ ch = BSL
    /\ LET nc == NextChar(pos, line_no)
       IN  IF nc.some
           THEN WordAdvance(IF nc.ch = LF THEN result
                            ELSE IF nc.ch \in {DOLLAR, BQ, DQ, BSL, SP, TAB}
                            THEN Append(result, nc.ch)
                            ELSE Append(Append(result, BSL), nc.ch),
                            nc.pos, nc.line_no)
           ELSE Return(None, nc.pos, nc.line_no, TRUE)

\* Mutant: a backslash at the end of input is kept as a literal byte.
WordBackslashLenient ==
    /\ pc = "word"
    /\ ch = BSL
    /\ LET nc == NextChar(pos, line_no)
       IN  IF nc.some
           THEN WordAdvance(IF nc.ch # LF THEN Append(result, nc.ch)
                            ELSE result,
                            nc.pos, nc.line_no)
           ELSE Return(Some(Append(result, BSL)), nc.pos, nc.line_no,
                       had_error)

\* bytes.rs:68-73 then 77.
WordBackslash ==
    /\ pc = "word"
    /\ ch = BSL
    /\ LET nc == NextChar(pos, line_no)
       IN  IF nc.some
           THEN WordAdvance(IF nc.ch # LF THEN Append(result, nc.ch)
                            ELSE result,
                            nc.pos, nc.line_no)
           ELSE Return(None, nc.pos, nc.line_no, TRUE)

\* Mutant: the byte that ends the word is put back for the next call.
WordSpacePutsBack ==
    /\ pc = "word"
    /\ IsSpace(ch)
    /\ Return(Some(result), pos - 1, line_no, had_error)

\* bytes.rs:74 then 79.
WordSpace ==
    /\ pc = "word"
    /\ IsSpace(ch)
    /\ Return(Some(result), pos, line_no, had_error)

\* Mutant: a null byte is not pushed to the word.
WordByteSkipsNul ==
    /\ pc = "word"
    /\ ch \notin {DQ, SQ, BSL}
    /\ ~IsSpace(ch)
    /\ WordAdvance(IF ch = NUL THEN result ELSE Append(result, ch),
                   pos, line_no)

\* Mutant: a # opens a comment wherever it stands outside quotes.
WordByteHashComment ==
    /\ pc = "word"
    /\ ch \notin {DQ, SQ, BSL}
    /\ ~IsSpace(ch)
    /\ IF ch = HASH
       THEN Goto("comment", ch, result, pos, line_no)
       ELSE WordAdvance(Append(result, ch), pos, line_no)

\* bytes.rs:75 then 77.
WordByte ==
    /\ pc = "word"
    /\ ch \notin {DQ, SQ, BSL}
    /\ ~IsSpace(ch)
    /\ WordAdvance(Append(result, ch), pos, line_no)

\* Mutant: at the end of input inside double quotes the flag is set but the
\* word built so far is yielded.
DoubleEndPartial ==
    /\ pc = "double"
    /\ ~NextChar(pos, line_no).some
    /\ Return(Some(result), pos, line_no, TRUE)

\* parse_double, bytes.rs:103-105, then 60-62.
DoubleEnd ==
    /\ pc = "double"
    /\ ~NextChar(pos, line_no).some
    /\ Return(None, pos, line_no, TRUE)

\* Mutant: inside double quotes a backslash escapes any byte, as it does
\* outside quotes.
DoubleEscapedAnyByte(w, ch3) == IF ch3 = LF THEN w ELSE Append(w, ch3)

\* Mutant: inside double quotes a backslash before an ordinary byte becomes
\* an equals sign, as the comment of bytes.rs:93 has it.
DoubleEscapedEquals(w, ch3) ==
    IF ch3 \in {DOLLAR, BQ, DQ, BSL} THEN Append(w, ch3)
    ELSE IF ch3 = LF THEN w
    ELSE Append(Append(w, EQUALS), ch3)

\* The word after a backslash inside double quotes followed by ch3
\* (bytes.rs:88-95).
DoubleEscaped(w, ch3) ==
    IF ch3 \in {DOLLAR, BQ, DQ, BSL} THEN Append(w, ch3)
    ELSE IF ch3 = LF THEN w
    ELSE Append(Append(w, BSL), ch3)

\* parse_double, bytes.rs:86-99.
DoubleBackslash ==
    /\ pc = "double"
    /\ LET nc == NextChar(pos, line_no)
       IN  /\ nc.some
           /\ nc.ch = BSL
           /\ LET nc3 == NextChar(nc.pos, nc.line_no)
              IN  IF nc3.some
                  THEN Goto("double", ch, DoubleEscaped(result, nc3.ch),
                            nc3.pos, nc3.line_no)
                  ELSE Return(None, nc3.pos, nc3.line_no, TRUE)

\* parse_double, bytes.rs:100, then 77.
DoubleClose ==
    /\ pc = "double"
    /\ LET nc == NextChar(pos, line_no)
       IN  /\ nc.some
           /\ nc.ch = DQ
           /\ WordAdvance(result, nc.pos, nc.line_no)

\* parse_double, bytes.rs:101.
DoubleByte ==
    /\ pc = "double"
    /\ LET nc == NextChar(pos, line_no)
       IN  /\ nc.some
           /\ nc.ch \notin {BSL, DQ}
           /\ Goto("double", ch, Append(result, nc.ch), nc.pos, nc.line_no)

\* parse_single, bytes.rs:116-118, then 64-66.
SingleEnd ==
    /\ pc = "single"
    /\ ~NextChar(pos, line_no).some
    /\ Return(None, pos, line_no, TRUE)

\* Mutant: a single quote after a backslash does not close the quote but
\* replaces the backslash.
SingleCloseUnlessEscaped ==
    /\ pc = "single"
    /\ LET nc == NextChar(pos, line_no)
       IN  /\ nc.some
           /\ nc.ch = SQ
           /\ IF result # <<>> /\ result[Len(result)] = BSL
              THEN Goto("single", ch,
                        Append(SubSeq(result, 1, Len(result) - 1), SQ),
                        nc.pos, nc.line_no)
              ELSE WordAdvance(result, nc.pos, nc.line_no)

\* parse_single, bytes.rs:113, then 77.
SingleClose ==
    /\ pc = "single"
    /\ LET nc == NextChar(pos, line_no)
       IN  /\ nc.some
           /\ nc.ch = SQ
           /\ WordAdvance(result, nc.pos, nc.line_no)

\* parse_single, bytes.rs:114.
SingleByte ==
    /\ pc = "single"
    /\ LET nc == NextChar(pos, line_no)
       IN  /\ nc.some
           /\ nc.ch # SQ
           /\ Goto("single", ch, Append(result, nc.ch), nc.pos, nc.line_no)

Next ==
    \/ QuoteCall
    \/ JoinCall
    \/ Pull
    \/ SkipSpace
    \/ SkipHash
    \/ CommentByte
    \/ SkipEnd
    \/ WordDouble
    \/ WordSingle
    \/ WordBackslash
    \/ WordSpace
    \/ WordByte
    \/ DoubleEnd
    \/ DoubleBackslash
    \/ DoubleClose
    \/ DoubleByte
    \/ SingleEnd
    \/ SingleClose
    \/ SingleByte

Spec == Init /\ [][Next]_vars

\* ------------------------------------------------- split as a function
\* split (bytes.rs:156-160) of a whole byte string s, for the claims that
\* compare the results of two inputs: the same loops as the actions above,
\* run to the end.  p bytes are consumed, the control is at loc (for "skip"
\* and "word" the byte under the match is s[p]), w is parse_word's result and
\* out the words collected so far.
RECURSIVE ScanFrom(_, _, _, _, _)
ScanFrom(s, p, loc, w, out) ==
    LET \* bytes.rs:77-79 with the cursor at q and the word w2
        Advance(w2, q) ==
            IF q < Len(s) THEN ScanFrom(s, q + 1, "word", w2, out)
            ELSE SplitResult(FALSE, Append(out, w2))
        \* bytes.rs:144 with the cursor at q
        SkipOn(q) ==
            IF q < Len(s) THEN ScanFrom(s, q + 1, "skip", <<>>, out)
            ELSE SplitResult(FALSE, out)
    IN  CASE loc = "idle" -> SkipOn(p)
          [] loc = "skip" ->
                IF IsSpace(s[p]) THEN SkipOn(p)
                ELSE IF s[p] = HASH THEN ScanFrom(s, p, "comment", <<>>, out)
                ELSE ScanFrom(s, p, "word", <<>>, out)
          [] loc = "comment" ->
                IF p < Len(s) /\ s[p + 1] # LF
                THEN ScanFrom(s, p + 1, "comment", <<>>, out)
                ELSE SkipOn(IF p < Len(s) THEN p + 1 ELSE p)
          [] loc = "word" ->
                IF s[p] = DQ THEN ScanFrom(s, p, "double", w, out)
                ELSE IF s[p] = SQ THEN ScanFrom(s, p, "single", w, out)
                ELSE IF s[p] = BSL
                THEN IF p < Len(s)
                     THEN Advance(IF s[p + 1] # LF THEN Append(w, s[p + 1])
                                  ELSE w, p + 1)
                     ELSE SplitResult(TRUE, out)
                ELSE IF IsSpace(s[p])
                THEN ScanFrom(s, p, "idle", <<>>, Append(out, w))
                ELSE Advance(Append(w, s[p]), p)
          [] loc = "double" ->
                IF p = Len(s) THEN SplitResult(TRUE, out)
                ELSE IF s[p + 1] = BSL
                THEN IF p + 1 < Len(s)
                     THEN ScanFrom(s, p + 2, "double",
                                   DoubleEscaped(w, s[p + 2]), out)
                     ELSE SplitResult(TRUE, out)
                ELSE IF s[p + 1] = DQ THEN Advance(w, p + 1)
                ELSE ScanFrom(s, p + 1, "double", Append(w, s[p + 1]), out)
          [] loc = "single" ->
                IF p = Len(s) THEN SplitResult(TRUE, out)
                ELSE IF s[p + 1] = SQ THEN Advance(w, p + 1)
                ELSE ScanFrom(s, p + 1, "single", Append(w, s[p + 1]), out)

split(in_bytes) == ScanFrom(in_bytes, 0, "idle", <<>>, <<>>)

\* The scan by steps and the scan as a function give the same result.
SplitAgrees == split_ret.tag # "Unset" => split_ret = split(input)

\* ---------------------------------------------- the model against the tests
\* test_split (bytes.rs:235-240): on each input of the table split returns
\* what the table says.
TestSplitPasses ==
    \A i \in 1 .. Len(SPLIT_TEST_ITEMS) :
        (op = "raw" /\ input = SPLIT_TEST_ITEMS[i].in
            /\ split_ret.tag # "Unset")
            => split_ret = SPLIT_TEST_ITEMS[i].out

\* test_lineno (bytes.rs:242-250): line_no is 3 when bar is yielded.
TestLinenoPasses ==
    (op = "raw" /\ input = LinenoTestInput /\ ret = Some(<<98, 97, 114>>))
        => line_no = 3

\* test_quote and test_join (bytes.rs:252-268).
TestQuoteJoinPasses ==
    /\ quote(<<102, 111, 111, 98, 97, 114>>) = <<102, 111, 111, 98, 97, 114>>
    /\ quote(<<102, 111, 111, 32, 98, 97, 114>>)
          = <<34, 102, 111, 111, 32, 98, 97, 114, 34>>
    /\ quote(<<34>>) = <<34, 92, 34, 34>>
    /\ quote(<<>>) = <<34, 34>>
    /\ quote(<<HIGH>>) = <<HIGH>>
    /\ join(<<>>) = <<>>
    /\ join(<< <<>> >>) = <<34, 34>>
    /\ join(<< <<97>>, <<98>> >>) = <<97, 32, 98>>
    /\ join(<< <<102, 111, 111, 32, 98, 97, 114>>, <<98, 97, 122>> >>)
          = <<34, 102, 111, 111, 32, 98, 97, 114, 34, 32, 98, 97, 122>>
    /\ join(<< <<HIGH>> >>) = <<HIGH>>

\* ------------------------------------------------------------ C1: round trip
NoNul(ws) == \A i \in 1 .. Len(ws) : \A j \in 1 .. Len(ws[i]) : ws[i][j] # NUL

\* C1: for every list of words without a null byte (the empty list and empty
\* words included), split(join(words)) succeeds and returns exactly the words,
\* in order.
C1_RoundTrip ==
    (op = "join" /\ NoNul(args) /\ split_ret.tag # "Unset")
        => split_ret = Some(args)

\* A joined list with an empty word and a word holding a backslash went
\* through split.
C1_Witness ==
    /\ op = "join"
    /\ split_ret.tag = "Some"
    /\ NoNul(args)
    /\ Len(args) >= 2
    /\ \E i \in 1 .. Len(args) : args[i] = <<>>
    /\ \E i \in 1 .. Len(args) : \E j \in 1 .. Len(args[i]) : args[i][j] = BSL

\* ------------------------------------------------------- C2: split's result
\* C2: split returns None exactly when had_error is set once the tokenizer is
\* drained; otherwise Some of all the yielded words in order; on failure no
\* partial list comes back, whatever was yielded before the error.
C2_SplitContract ==
    split_ret.tag # "Unset" =>
        /\ (split_ret.tag = "None") <=> had_error
        /\ ~had_error => split_ret = Some(words)
        /\ had_error => split_ret.val = <<>>

\* split failed after words had been yielded.
C2_Witness ==
    /\ split_ret.tag = "None"
    /\ Len(words) >= 1
    /\ had_error

\* ------------------------------------------------ C3: the three error cases
\* The lexical situation after each byte, read off the grammar: between
\* tokens, in a comment, in a word, right after an escaping backslash, inside
\* double quotes, right after a backslash inside double quotes, inside single
\* quotes.
LexStep(q, c) ==
    CASE q = "comment"       -> IF c = LF THEN "between" ELSE "comment"
      [] q = "escape"        -> "word"
      [] q = "double"        -> IF c = BSL THEN "double_escape"
                                ELSE IF c = DQ THEN "word" ELSE "double"
      [] q = "double_escape" -> "double"
      [] q = "single"        -> IF c = SQ THEN "word" ELSE "single"
      [] q = "between" /\ c = HASH -> "comment"
      [] OTHER               -> IF c \in {SP, TAB, LF} THEN "between"
                                ELSE IF c = DQ THEN "double"
                                ELSE IF c = SQ THEN "single"
                                ELSE IF c = BSL THEN "escape"
                                ELSE "word"

RECURSIVE LexAfter(_, _)
LexAfter(s, n) == IF n = 0 THEN "between" ELSE LexStep(LexAfter(s, n - 1), s[n])

LexEnd(s) == LexAfter(s, Len(s))

\* The input ends inside an open double quote, inside an open single quote,
\* or right after an unescaped backslash.
EndsOpen(s) == LexEnd(s) \in {"double", "double_escape", "single", "escape"}

\* C3: had_error is set, and split fails, exactly when the input ends inside
\* an open double quote, inside an open single quote, or right after an
\* unescaped backslash; every other byte sequence tokenizes without error.
C3_ErrorCases ==
    /\ had_error => EndsOpen(input)
    /\ split_ret.tag # "Unset" =>
          /\ had_error <=> EndsOpen(input)
          /\ (split_ret.tag = "None") <=> EndsOpen(input)

\* An input that closes a quote and then ends on a backslash has failed.
C3_Witness ==
    /\ had_error
    /\ split_ret.tag = "None"
    /\ LexEnd(input) = "escape"
    /\ \E i \in 1 .. Len(input) : input[i] \in {DQ, SQ}

\* ------------------------------------------------------ C4: the error policy
\* C4: the pull that hits an error trigger returns end-of-sequence, sets
\* had_error and yields nothing: the word under construction is dropped with
\* all its bytes, and the words yielded before stay as they are.
C4_ErrorPolicy ==
    /\ [](had_error => (pc = "idle" /\ ret = None))
    /\ [][(had_error' /\ ~had_error)
            => (pc' = "idle" /\ ret' = None /\ words' = words)]_vars

\* On the word, space, word, open quote of a a" the first word was yielded
\* and the second, an a before the open quote, was dropped.
C4_Witness ==
    /\ had_error
    /\ input = <<LETTER, SP, LETTER, DQ>>
    /\ words = << <<LETTER>> >>
    /\ ret = None

\* ------------------------------------------------------- C5: monotonic end
\* C5: had_error starts false and is never cleared; once a pull has returned
\* end-of-sequence, every later pull returns end-of-sequence and leaves
\* had_error and line_no as they were.
C5_Monotonic ==
    /\ ~had_error
    /\ [][/\ had_error => had_error'
          /\ (pc = "idle" /\ ret = None)
                => (pc' = "idle" /\ ret' = None /\ had_error' = had_error
                    /\ line_no' = line_no /\ words' = words)]_vars

\* The sequence has ended on an error, past a newline; pulls go on from here.
C5_Witness ==
    /\ pc = "idle"
    /\ ret = None
    /\ had_error
    /\ line_no > 1
    /\ Len(words) >= 1

\* --------------------------------------------------- C6: quote's escaping
\* The metacharacters as the specification lists them: space, tab, CR, LF,
\* | & ; < > ( ) $ backtick \ " ' * ? [ # ~ = %.
ListedMeta == {32, 9, 13, 10, 124, 38, 59, 60, 62, 40, 41, 36, 96, 92, 34, 39,
               42, 63, 91, 35, 126, 61, 37}
\* $, backtick, double quote, backslash.
ListedEscaped == {36, 96, 34, 92}

HasListedMeta(w) == \E i \in 1 .. Len(w) : w[i] \in ListedMeta

\* The number of bytes among w[1..i] that get a backslash.
EscapedUpTo(w, i) == Cardinality({j \in 1 .. i : w[j] \in ListedEscaped})

\* out is: a double quote, the bytes of w in order with one backslash before
\* each listed byte and nothing else added, a double quote.
IsEscapedInQuotes(w, out) ==
    LET at(i) == 1 + i + EscapedUpTo(w, i)
    IN  /\ Len(out) = Len(w) + EscapedUpTo(w, Len(w)) + 2
        /\ out[1] = DQ
        /\ out[Len(out)] = DQ
        /\ \A i \in 1 .. Len(w) :
              /\ out[at(i)] = w[i]
              /\ w[i] \in ListedEscaped => out[at(i) - 1] = BSL

\* C6: quote of a word with at least one metacharacter is a double quote, the
\* word's bytes in order with one backslash before each $, backtick, double
\* quote or backslash and no other byte altered, and a closing double quote.
C6_QuoteEscapes ==
    (op = "quote" /\ HasListedMeta(args[1]))
        => IsEscapedInQuotes(args[1], input)

\* A word with a backslash, a byte that is escaped and one that is not.
C6_Witness ==
    /\ op = "quote"
    /\ Len(args[1]) = 3
    /\ args[1][1] = BSL
    /\ args[1][2] = SQ
    /\ args[1][3] = DQ
    /\ Len(input) = 7

\* --------------------------------------------------- C7: quote's identity
\* C7: quote(word) = word exactly when the word is non-empty and holds none of
\* the listed metacharacters; quote of the empty word is two double quotes.
C7_QuoteIdentity ==
    op = "quote" =>
        /\ (input = args[1]) <=> (args[1] # <<>> /\ ~HasListedMeta(args[1]))
        /\ args[1] = <<>> => input = <<DQ, DQ>>

\* A two-byte word without metacharacter came back unchanged.
C7_Witness ==
    /\ op = "quote"
    /\ Len(args[1]) >= 2
    /\ input = args[1]

\* ------------------------------------------------------- C8: join's shape
\* Where word i of the joined output starts: after the quoted words before it
\* and one separator each.
RECURSIVE JoinOffset(_, _)
JoinOffset(ws, i) ==
    IF i = 1 THEN 0 ELSE JoinOffset(ws, i - 1) + Len(quote(ws[i - 1])) + 1

\* C8: join(words) is quote(w1), one space, quote(w2), ..., quote(wn): one
\* space between consecutive quoted words, nothing before the first or after
\* the last, the empty list gives the empty output and a single word gives its
\* quote.
C8_JoinShape ==
    op = "join" =>
        LET n == Len(args)
        IN  /\ n = 0 => input = <<>>
            /\ n = 1 => input = quote(args[1])
            /\ n >= 1 =>
                  Len(input) = JoinOffset(args, n) + Len(quote(args[n]))
            /\ \A i \in 1 .. n :
                  LET off == JoinOffset(args, i)
                      q   == quote(args[i])
                  IN  /\ off + Len(q) <= Len(input)
                      /\ SubSeq(input, off + 1, off + Len(q)) = q
                      /\ i > 1 => input[off] = SP

\* Three words, one of them quoted, were joined.
C8_Witness ==
    /\ op = "join"
    /\ Len(args) = 3
    /\ \E i \in 1 .. 3 : args[i] = <<SP>>

\* ------------------------------------------------------------ C9: line_no
NewlinesConsumed == Cardinality({i \in 1 .. pos : input[i] = LF})

\* C9: at every point of a scan line_no is 1 plus the number of newline bytes
\* consumed so far, wherever the newline stood: as a separator, inside quotes,
\* in a comment, after a backslash.
C9_LineNo == line_no = 1 + NewlinesConsumed

\* A line continuation and the newline ending a comment were both counted.
C9_Witness ==
    /\ input = <<BSL, LF, HASH, LF>>
    /\ pos = 4
    /\ line_no = 3

\* ----------------------------------------------------------- C10: comments
\* C10: a # where a token would start opens a comment; the bytes up to and
\* including the next newline, or up to the end of input, are consumed and
\* reach no word; nothing in the comment causes an error, a backslash before
\* the newline does not extend it, and the skip phase resumes after it.
C10_Comment ==
    [][/\ (pc = "skip" /\ ch = HASH)
            => (pc' = "comment" /\ pos' = pos /\ words' = words
                /\ ~had_error')
       /\ pc = "comment"
            => /\ words' = words
               /\ result' = <<>>
               /\ had_error' = had_error
               /\ ~had_error
               /\ IF pos = Len(input)
                  THEN pc' = "idle" /\ ret' = None /\ pos' = pos
                  ELSE IF input[pos + 1] # LF
                  THEN pc' = "comment" /\ pos' = pos + 1
                  ELSE IF pos + 1 = Len(input)
                  THEN pc' = "idle" /\ ret' = None /\ pos' = pos + 1
                  ELSE pc' = "skip" /\ ch' = input[pos + 2]
                       /\ pos' = pos + 2]_vars

\* #\ newline, then a byte: the comment ended at the newline although a
\* backslash stood before it, and the skip phase has the next byte.
C10_Witness ==
    /\ Len(input) = 4
    /\ input[1] = HASH
    /\ input[2] = BSL
    /\ input[3] = LF
    /\ pc = "skip"
    /\ pos = 4
    /\ words = <<>>

\* ------------------------------------------------------ C11: the literal #
\* The step leaves w as the word under construction, or, at the end of
\* input, yields w.
WordAfterIs(w) ==
    \/ pc' = "word" /\ result' = w /\ words' = words
    \/ /\ pc' = "idle"
       /\ pos' = Len(input)
       /\ ret' = Some(w)
       /\ words' = Append(words, w)

\* C11: a # that does not start a token is literal: after a byte of the
\* current token, after a closed quote pair, after an escaped byte, inside
\* single or double quotes, or right after a backslash it is appended to the
\* word, and a comment is only ever entered from the skip phase.
C11_LiteralHash ==
    [][/\ (pc = "word" /\ ch = HASH) => WordAfterIs(Append(result, HASH))
       /\ (pc = "word" /\ ch = BSL /\ pos < Len(input)
              /\ input[pos + 1] = HASH)
            => WordAfterIs(Append(result, HASH))
       /\ (pc \in {"double", "single"} /\ pos < Len(input)
              /\ input[pos + 1] = HASH)
            => (pc' = pc /\ result' = Append(result, HASH))
       /\ (pc = "double" /\ pos + 1 < Len(input) /\ input[pos + 1] = BSL
              /\ input[pos + 2] = HASH)
            => (pc' = pc /\ result' = result \o <<BSL, HASH>>)
       /\ pc' = "comment" => pc \in {"skip", "comment"}]_vars

\* A # right after a closed pair of double quotes became the word.
C11_Witness ==
    /\ input = <<DQ, DQ, HASH>>
    /\ split_ret = Some(<< <<HASH>> >>)

C13_SingleQuotes ==
    /\ []((input = <<SQ, 98, 97, 122, BSL, SQ, SQ>>
             /\ split_ret.tag # "Unset") => split_ret = None)
    /\ []((input = <<SQ, 98, 97, 122, BSL, DOLLAR, 98, SQ>>
             /\ split_ret.tag # "Unset")
            => split_ret = Some(<< <<98, 97, 122, BSL, DOLLAR, 98>> >>))
    /\ [][(pc = "single" /\ pos < Len(input)) =>
             LET c == input[pos + 1]
             IN  IF c = SQ
                 THEN WordAfterIs(result)
                 ELSE /\ pc' = "single"
                      /\ pos' = pos + 1
                      /\ result' = Append(result, c)]_vars

\* '\' gave the word \: the quote after the backslash closed the quote.
C13_Witness ==
    /\ input = <<SQ, BSL, SQ>>
    /\ split_ret = Some(<< <<BSL>> >>)

\* --------------------------------------------- C14: the unquoted backslash
\* C14: outside quotes a backslash before any byte but a newline appends that
\* byte and nothing else, whatever the byte: it does not end the word, open a
\* quote or open a comment.
C14_UnquotedEscape ==
    [][(pc = "word" /\ ch = BSL /\ pos < Len(input)
           /\ input[pos + 1] # LF)
         => /\ WordAfterIs(Append(result, input[pos + 1]))
            /\ ~had_error'
            /\ pos' = IF pos + 1 < Len(input) THEN pos + 2 ELSE pos + 1]_vars

\* An escaped space followed by a letter made one word of the two.
C14_Witness ==
    /\ input = <<BSL, SP, LETTER>>
    /\ split_ret = Some(<< <<SP, LETTER>> >>)

\* ------------------------------------------------- C15: line continuation
\* Byte i of s is an escaping backslash, outside single quotes and comments,
\* and a newline follows it.
IsContinuation(s, i) ==
    /\ i < Len(s)
    /\ s[i] = BSL
    /\ s[i + 1] = LF
    /\ LexAfter(s, i) \in {"escape", "double_escape"}

\* s from byte k on, with every continuation pair deleted.
RECURSIVE WithoutContinuationsFrom(_, _)
WithoutContinuationsFrom(s, k) ==
    IF k > Len(s) THEN <<>>
    ELSE IF IsContinuation(s, k) THEN WithoutContinuationsFrom(s, k + 2)
    ELSE <<s[k]>> \o WithoutContinuationsFrom(s, k + 1)

WithoutContinuations(s) == WithoutContinuationsFrom(s, 1)

\* C15: line continuation is removed entirely: split of an input with an
\* escaping backslash-newline outside single quotes equals split of the input
\* with those two bytes deleted; the pair adds no byte to a word, separates
\* no words and creates no word.
C15_Continuation ==
    (op = "raw" /\ split_ret.tag # "Unset"
        /\ \E i \in 1 .. Len(input) : IsContinuation(input, i))
      => split_ret = split(WithoutContinuations(input))

\* ------------------------------------------------- C16: word boundaries
\* C16: a word ends only at a space, tab or newline that is outside quotes
\* and not escaped, or at the end of input; quoted and unquoted segments with
\* no such byte between them make one word; no other byte separates words.
C16_WordBoundaries ==
    /\ []((split_ret.tag # "Unset"
             /\ \A i \in 1 .. Len(input) : input[i] \notin {32, 9, 10})
            => Len(words) <= 1)
    /\ [][words' # words =>
            \/ /\ pc = "word"
               /\ ch \in {32, 9, 10}
               /\ ch = input[pos]
               /\ LexAfter(input, pos) = "between"
               /\ words' = Append(words, result)
            \/ /\ pos' = Len(input)
               /\ LexEnd(input) = "word"
               /\ Len(words') = Len(words) + 1]_vars

\* A carriage return between two letters stayed inside the one word.
C16_Witness ==
    /\ input = <<LETTER, CR, LETTER>>
    /\ split_ret = Some(<< <<LETTER, CR, LETTER>> >>)

\* ------------------------------------------- C17: what quote inserts
\* The places of out that hold the bytes of the word, in order: all of them
\* when quote returned the word itself; otherwise, between the outer quotes,
\* every byte but the backslashes that escape the byte after them.
RECURSIVE KeptFrom(_, _, _)
KeptFrom(out, p, last) ==
    IF p > last THEN <<>>
    ELSE IF out[p] = BSL /\ p < last
         THEN <<p + 1>> \o KeptFrom(out, p + 2, last)
         ELSE <<p>> \o KeptFrom(out, p + 1, last)

Kept(w, out) ==
    IF out = w THEN [i \in 1 .. Len(w) |-> i]
    ELSE KeptFrom(out, 2, Len(out) - 1)

KeptSet(w, out) == {Kept(w, out)[i] : i \in 1 .. Len(Kept(w, out))}

\* The places of out that quote inserted.
Inserted(w, out) == (1 .. Len(out)) \ KeptSet(w, out)

\* Deleting the inserted bytes gives back the word.
RestoresWord(w, out) ==
    LET k == Kept(w, out)
    IN  /\ Len(k) = Len(w)
        /\ \A i \in 1 .. Len(w) : out[k[i]] = w[i]

\* The inserted byte at p stands before or after an ASCII byte of the word:
\* the nearest byte of the word on one of its sides is ASCII.
NextToAscii(w, out, p) ==
    LET ks    == KeptSet(w, out)
        after == {q \in ks : q > p}
        befor == {q \in ks : q < p}
    IN  \/ after # {} /\ out[CHOOSE q \in after : \A r \in after : q <= r] < 128
        \/ befor # {} /\ out[CHOOSE q \in befor : \A r \in befor : q >= r] < 128

SafeWord(w) == w # <<>> /\ ~HasListedMeta(w)

\* C18: a non-empty byte sequence with none of the metacharacters, null bytes
\* and invalid UTF-8 included, passes unchanged: split(w) = [w], quote(w) = w
\* and join([w]) = w.
C18_PassThrough ==
    /\ (op = "raw" /\ SafeWord(input) /\ split_ret.tag # "Unset")
          => split_ret = Some(<<input>>)
    /\ (op = "quote" /\ SafeWord(args[1])) => input = args[1]
    /\ (op = "join" /\ Len(args) = 1 /\ SafeWord(args[1])) => input = args[1]
    /\ (op \in {"quote", "join"} /\ Len(args) = 1 /\ SafeWord(args[1])
          /\ split_ret.tag # "Unset") => split_ret = Some(args)

\* A null byte and an invalid UTF-8 byte came through split as one word.
C18_Witness ==
    /\ op = "raw"
    /\ input = <<NUL, HIGH>>
    /\ split_ret = Some(<< <<NUL, HIGH>> >>)

\* ------------------------------------- C19: quote keeps non-ASCII runs
\* C19: deleting the bytes quote inserted gives back the input, and nothing
\* is inserted between two consecutive input bytes from 0x80 on.
C19_QuoteKeepsRuns ==
    op = "quote" =>
        LET w == args[1]
            k == Kept(w, input)
        IN  /\ RestoresWord(w, input)
            /\ \A i \in 1 .. Len(w) - 1 :
                  (w[i] >= 128 /\ w[i + 1] >= 128) => k[i + 1] = k[i] + 1

\* A quoted word with a run of two bytes from 0x80 on after an escaped byte.
C19_Witness ==
    /\ op = "quote"
    /\ args[1] = <<BSL, HIGH, HIGH>>
    /\ input = <<DQ, BSL, BSL, HIGH, HIGH, DQ>>

\* --------------------------------- C20: the tokenizer keeps non-ASCII runs
\* The maximal runs of bytes from 0x80 on in s, as <<first, last>>.
MaxRuns(s) ==
    {r \in (1 .. Len(s)) \X (1 .. Len(s)) :
        /\ r[1] <= r[2]
        /\ \A k \in r[1] .. r[2] : s[k] >= 128
        /\ r[1] > 1 => s[r[1] - 1] < 128
        /\ r[2] < Len(s) => s[r[2] + 1] < 128}

\* r occurs in w as a block.
Contains(w, r) ==
    \E o \in 0 .. (Len(w) - Len(r)) : SubSeq(w, o + 1, o + Len(r)) = r

\* Byte i of the input stands in a comment.
InComment(i) == LexAfter(input, i) = "comment"

\* Byte i of the input stands in the last token, which an error discarded.
InDiscarded(i) ==
    /\ had_error
    /\ \A k \in i .. Len(input) :
          LexAfter(input, k) \notin {"between", "comment"}

RECURSIVE HighBytesIn(_)
HighBytesIn(ws) ==
    IF ws = <<>> THEN 0
    ELSE Cardinality({k \in 1 .. Len(ws[1]) : ws[1][k] >= 128})
         + HighBytesIn(Tail(ws))

RECURSIVE TotalLength(_)
TotalLength(runs) ==
    IF runs = {} THEN 0
    ELSE LET r == CHOOSE x \in runs : TRUE
         IN  (r[2] - r[1] + 1) + TotalLength(runs \ {r})

\* C20: the tokenizer never splits a run of bytes from 0x80 on: each maximal
\* run of the input is whole and in order inside one yielded word, or, being
\* in a comment or in a word discarded on error, in no word at all.
C20_TokenizerKeepsRuns ==
    split_ret.tag # "Unset" =>
        LET runs  == MaxRuns(input)
            gone  == {r \in runs : InComment(r[1]) \/ InDiscarded(r[1])}
        IN  /\ \A r \in runs \ gone :
                  \E k \in 1 .. Len(words) :
                      Contains(words[k], SubSeq(input, r[1], r[2]))
            /\ HighBytesIn(words) = TotalLength(runs \ gone)

\* A run of two came out whole in the first word, a run of one in the second.
C20_Witness ==
    /\ input = <<HIGH, HIGH, SP, HIGH>>
    /\ split_ret = Some(<< <<HIGH, HIGH>>, <<HIGH>> >>)

\* ------------------------------------------- C21: one pass and termination
\* The code that is running runs on, and the caller pulls until it is handed
\* end-of-sequence, as split's collect does (bytes.rs:158).
FairSpec == Spec /\ WF_vars(Next)

\* A call of next is under way.
InPull == pc \in {"skip", "comment", "word", "double", "single"}

\* C21: the cursor never moves back; every pull ends; a pull consumes a byte
\* when it starts and only a pull under way yields a word, so a pull that
\* yields a word has consumed at least one byte and at most Len(input) words
\* are yielded; in the end a pull returns end-of-sequence with the whole input
\* consumed.
C21_ForwardAndTerminates ==
    /\ [](Len(words) + (IF InPull THEN 1 ELSE 0) <= pos /\ pos <= Len(input))
    /\ []((pc = "idle" /\ ret = None) => pos = Len(input))
    /\ [][/\ pos' >= pos
          /\ (pc = "idle" /\ InPull') => pos' = pos + 1
          /\ words' # words => (InPull /\ Len(words') = Len(words) + 1)]_vars
    /\ [](InPull => <>(pc = "idle"))
    /\ <>(pc = "idle" /\ ret = None /\ pos = Len(input))

\* Three pulls on "a a": two words, then end-of-sequence at the end of input.
C21_Witness ==
    /\ input = <<LETTER, SP, LETTER>>
    /\ words = << <<LETTER>>, <<LETTER>> >>
    /\ pc = "idle"
    /\ ret = None
    /\ pos = 3

\* ------------------------------------------------ C22: when the flag rises
\* C22: had_error becomes true only in a step in which a pull returns
\* end-of-sequence with the whole input consumed; in every state had_error
\* implies that the cursor is at the end of input; had_error is false in the
\* state in which a word is yielded.
C22_ErrorOnlyAtEnd ==
    /\ [](had_error => pos = Len(input))
    /\ [][/\ (~had_error /\ had_error')
              => (pc' = "idle" /\ ret' = None /\ pos' = Len(input)
                  /\ words' = words)
          /\ words' # words => (~had_error' /\ ret'.tag = "Some")]_vars

\* A word was yielded, then an unterminated single quote raised the flag.
C22_Witness ==
    /\ input = <<LETTER, SP, SQ, LETTER>>
    /\ words = << <<LETTER>> >>
    /\ had_error
    /\ pos = 4
    /\ ret = None

\* ------------------------------------- C23: quote's output is one word
\* C23: in quote(w) every space, tab and newline stands strictly between the
\* opening and the closing double quote, every double quote and backslash of
\* w has a backslash that quote inserted right before it, and the tokenizer
\* makes exactly one word of quote(w), without error.
C23_QuoteOneWord ==
    op = "quote" =>
        LET w   == args[1]
            out == input
            k   == Kept(w, out)
        IN  /\ RestoresWord(w, out)
            /\ \A p \in 1 .. Len(out) :
                  out[p] \in {32, 9, 10} =>
                      /\ out[1] = 34
                      /\ out[Len(out)] = 34
                      /\ 1 < p
                      /\ p < Len(out)
            /\ \A i \in 1 .. Len(w) :
                  w[i] \in {34, 92} =>
                      /\ k[i] - 1 \in Inserted(w, out)
                      /\ out[k[i] - 1] = 92
            /\ split_ret.tag # "Unset" =>
                  /\ split_ret.tag = "Some"
                  /\ Len(split_ret.val) = 1
                  /\ Len(words) = 1
                  /\ ~had_error

\* The word: space, double quote, backslash.  Its quoted form came through
\* the tokenizer as one word.
C23_Witness ==
    /\ op = "quote"
    /\ args[1] = <<SP, DQ, BSL>>
    /\ input = <<DQ, SP, BSL, DQ, BSL, BSL, DQ>>
    /\ split_ret.tag = "Some"
    /\ Len(split_ret.val) = 1

\* ------------------------------------------- C24: the terminating byte
\* C24: when a word ended by a space, tab or newline is yielded, the cursor
\* stands right after that one byte, which follows the last byte of the token
\* and is not in the word; line_no counts it if it is a newline; the next
\* pull starts at the byte after it.  A word yielded before the end of input
\* was ended this way.
C24_Terminator ==
    [][/\ (words' # words /\ pc = "word" /\ ch \in {32, 9, 10}) =>
             /\ pos' = pos
             /\ input[pos'] = ch
             /\ LexAfter(input, pos') = "between"
             /\ pos' > 1
             /\ LexAfter(input, pos' - 1) \notin {"between", "comment"}
             /\ words' = Append(words, result)
             /\ ret' = Some(result)
             /\ line_no' = 1 + Cardinality({i \in 1 .. pos' : input[i] = 10})
             /\ pc' = "idle"
       /\ (words' # words /\ pos' < Len(input))
             => (pc = "word" /\ ch \in {32, 9, 10})
       /\ (pc = "idle" /\ ret.tag = "Some" /\ pos < Len(input)) =>
             /\ pos' = pos + 1
             /\ ch' = input[pos + 1]
             /\ pc' = "skip"
             /\ words' = words]_vars

\* test_lineno's input: foo has been yielded, the newline that ended it is
\* consumed and counted, and bar is still ahead.
C24_Witness ==
    /\ input = LinenoTestInput
    /\ words = << <<102, 111, 111>> >>
    /\ pc = "idle"
    /\ pos = 5
    /\ line_no = 3

\* --------------------------------- C25: the input ends in the skip phase
\* From byte j + 1 on, s holds nothing but white space between tokens and
\* comments.
OnlySkippedAfter(s, j) ==
    \A i \in (j + 1) .. Len(s) : LexAfter(s, i) \in {"between", "comment"}

\* C25: on an input of nothing but spaces, tabs, newlines and comments, the
\* empty input and a last comment without its newline included, no word is
\* ever under construction or yielded, the pull returns end-of-sequence,
\* had_error stays false and split returns Some of the empty list; white
\* space and comments after the last word change nothing: split returns what
\* it returns on the input cut before them.
C25_SkipToEnd ==
    /\ OnlySkippedAfter(input, 0) =>
          /\ pc \notin {"word", "double", "single"}
          /\ words = <<>>
          /\ ret \in {Unset, None}
          /\ ~had_error
          /\ split_ret \in {Unset, Some(<<>>)}
          /\ (pc = "idle" /\ ret = None) => split_ret = Some(<<>>)
    /\ split_ret.tag # "Unset" =>
          \A j \in 0 .. Len(input) :
              OnlySkippedAfter(input, j) =>
                  /\ split_ret = split(SubSeq(input, 1, j))
                  /\ had_error = (split(SubSeq(input, 1, j)) = None)

\* Tab, newline and a comment that the end of input cuts short: split
\* returned Some of the empty list.
C25_Witness ==
    /\ input = <<TAB, LF, HASH, LETTER>>
    /\ pc = "idle"
    /\ ret = None
    /\ ~had_error
    /\ split_ret = Some(<<>>)

\* ------------------------------------------ C26: the tokenizer only deletes
\* The words of ws one after the other.
RECURSIVE Concat(_)
Concat(ws) == IF ws = <<>> THEN <<>> ELSE Head(ws) \o Concat(Tail(ws))

\* a from place i on is a subsequence of b from place j on.
RECURSIVE SubseqFrom(_, _, _, _)
SubseqFrom(a, i, b, j) ==
    IF i > Len(a) THEN TRUE
    ELSE IF j > Len(b) THEN FALSE
    ELSE IF a[i] = b[j] THEN SubseqFrom(a, i + 1, b, j + 1)
    ELSE SubseqFrom(a, i, b, j + 1)

IsSubsequence(a, b) == SubseqFrom(a, 1, b, 1)

\* C26: the words yielded so far, one after the other in the order of their
\* yield, are a subsequence of the input bytes consumed so far, the word
\* under construction after them too; so their total length never exceeds
\* the length of the input.
C26_OnlyDeletes ==
    /\ IsSubsequence(Concat(words) \o result, SubSeq(input, 1, pos))
    /\ IsSubsequence(Concat(words), input)
    /\ Len(Concat(words)) <= Len(input)
    /\ split_ret.tag = "Some" => IsSubsequence(Concat(split_ret.val), input)

\* Of backslash, space, space, letter the two words space and letter are
\* left.
C26_Witness ==
    /\ input = <<BSL, SP, SP, LETTER>>
    /\ words = << <<SP>>, <<LETTER>> >>
    /\ split_ret = Some(words)

====
